---- MODULE Spec2Model ----
(***************************************************************************)
(* Model of teensy.c: the reset routine startup(), the two memory          *)
(* initialisation primitives memory_copy() and memory_clear(), and the     *)
(* statically allocated tables (FlexSPI_NOR_Config, BootData,              *)
(* ImageVectorTable, irq_table).                                           *)
(*                                                                         *)
(* Addresses are byte addresses; memory is an array of 32-bit words, the   *)
(* word at byte address a being mem[a \div 4].  A memory-mapped register   *)
(* is named by the address the source gives it.  The value of the          *)
(* coprocessor-access-control register is kept as the set of its bits that *)
(* are 1, so that all 32 bits are represented.                             *)
(***************************************************************************)
EXTENDS Integers, Sequences, FiniteSets

VARIABLES pc, lr, sp, mmio, mem, dest, src, dest_end, sym, trace,
          dst0, src0, end0, mem0, mmio0, written, readset

vars == <<pc, lr, sp, mmio, mem, dest, src, dest_end, sym, trace,
          dst0, src0, end0, mem0, mmio0, written, readset>>

(* ------------------------------ bounds --------------------------------- *)
MaxText == 2
MaxData == 2
MaxBss == 2
StackWords == 1
MemWords == 4
MaxVal == 1

(* --------------------------- 32-bit words ------------------------------ *)
WordBits == 32

RECURSIVE Bits(_)
Bits(n) == IF n = 0 THEN {}
           ELSE {b + 1 : b \in Bits(n \div 2)} \cup (IF n % 2 = 1 THEN {0} ELSE {})

Shl(n, k) == {b + k : b \in Bits(n)} \cap (0 .. WordBits - 1)

BitOr(a, b) == a \cup b

(* ------------------------- static tables ------------------------------- *)
FlexSPI_NOR_Config == <<
    \h42464346, \h56010000, 0, \h00020101,
    \h00000000, 0, 0, \h00000000,
    0, 0, 0, 0,
    0, 0, 0, 0,
    \h00000000, \h00030401, 0, 0,
    \h00200000, 0, 0, 0,
    0, 0, 0, 0,
    0, 0, 0, \h00000000,
    \h0A1804EB, \h26043206, 0, 0,
    \h24040405, 0, 0, 0,
    0, 0, 0, 0,
    \h00000406, 0, 0, 0,
    0, 0, 0, 0,
    \h08180420, 0, 0, 0,
    0, 0, 0, 0,
    0, 0, 0, 0,
    \h081804D8, 0, 0, 0,
    \h08180402, \h00002004, 0, 0,
    0, 0, 0, 0,
    \h00000460, 0, 0, 0,
    0, 0, 0, 0,
    0, 0, 0, 0,
    0, 0, 0, 0,
    0, 0, 0, 0,
    0, 0, 0, 0,
    0, 0, 0, 0,
    0, 0, 0, 0,
    0, 0, 0, 0,
    256, 4096, 1, 0,
    \h00010000, 0, 0, 0,
    0, 0, 0, 0,
    0, 0, 0, 0>>

(* ------------------ addresses fixed by the link step ------------------- *)
Addr_FlexSPI_NOR_Config == 0
Addr_ImageVectorTable == Addr_FlexSPI_NOR_Config + 4 * Len(FlexSPI_NOR_Config)
Addr_BootData == Addr_ImageVectorTable + 4 * 8
Addr_startup == Addr_BootData + 4 * 3
LoadBase == Addr_startup + 4
ItcmBase == LoadBase + 4 * (MaxText + MaxData)
DtcmBase == ItcmBase + 4 * MaxText
Addr_irq_table == DtcmBase + 4 * (MaxData + MaxBss)
IrqTableLen == 256 + 16
StackTop == Addr_irq_table + 4 * (IrqTableLen + StackWords)
FlexramBankConfig == \h2AAAAAAB

\* The extern symbols of one link: nText, nData, nBss are the region sizes in
\* words; xipText / xipData say that a region executes where it is stored.
Symbols(nText, nData, nBss, xipText, xipData) ==
    LET stext == IF xipText THEN LoadBase ELSE ItcmBase
        sdataload == LoadBase + 4 * nText
        sdata == IF xipData THEN sdataload ELSE DtcmBase
        sbss == DtcmBase + 4 * MaxData
    IN [_stextload |-> LoadBase,
        _stext |-> stext,
        _etext |-> stext + 4 * nText,
        _sdataload |-> sdataload,
        _sdata |-> sdata,
        _edata |-> sdata + 4 * nData,
        _sbss |-> sbss,
        _ebss |-> sbss + 4 * nBss,
        _flexram_bank_config |-> FlexramBankConfig,
        _estack |-> StackTop,
        _flashimagelen |-> LoadBase + 4 * (nText + nData)]

BootData(s) == <<\h60000000, s._flashimagelen, 0>>

\* the table with BootData's address in the self field
ImageVectorTable_selfIsBootData == <<
    \h402000D1,
    Addr_startup,
    0,
    0,
    Addr_BootData,
    Addr_BootData,
    0,
    0>>

ImageVectorTable == <<
    \h402000D1,
    Addr_startup,
    0,
    0,
    Addr_BootData,
    Addr_ImageVectorTable,
    0,
    0>>

(* ------------------------ state at reset ------------------------------- *)
Garbage == \h5A5A5A5A
ResetSp == \h20201000
RomVectors == \h00200000
ImageBase == 1000
CpacrResetValues == {{}, {31}, {24, 27}, {0, 20, 23}}

\* the word the flash image holds at word index w
ImageWord(w) == ImageBase + w

InTable(w, addr, len) == addr \div 4 <= w /\ w < addr \div 4 + len

ResetMemory(s, fill) ==
    [w \in 0 .. StackTop \div 4 - 1 |->
        IF InTable(w, Addr_FlexSPI_NOR_Config, Len(FlexSPI_NOR_Config))
            THEN FlexSPI_NOR_Config[w - Addr_FlexSPI_NOR_Config \div 4 + 1]
        ELSE IF InTable(w, Addr_ImageVectorTable, Len(ImageVectorTable))
            THEN ImageVectorTable[w - Addr_ImageVectorTable \div 4 + 1]
        ELSE IF InTable(w, Addr_BootData, Len(BootData(s)))
            THEN BootData(s)[w - Addr_BootData \div 4 + 1]
        ELSE IF w < ItcmBase \div 4 THEN ImageWord(w)
        ELSE fill]

ResetRegisters(v) ==
    [a \in {"0x400AC044", "0x400AC040", "0x400AC038", "0xE000ED88", "0xE000ED08"} |->
        IF a = "0xE000ED88" THEN v
        ELSE IF a = "0xE000ED08" THEN RomVectors
        ELSE 0]

Init ==
    \E nText \in 0 .. MaxText, nData \in 0 .. MaxData, nBss \in 0 .. MaxBss,
       xipText \in BOOLEAN, xipData \in BOOLEAN,
       v \in CpacrResetValues, fill \in {0, Garbage} :
        /\ sym = Symbols(nText, nData, nBss, xipText, xipData)
        /\ mem = ResetMemory(sym, fill)
        /\ mmio = ResetRegisters(v)
        /\ pc = "L37"
        /\ lr = "reset"
        /\ sp = ResetSp
        /\ dest = 0 /\ src = 0 /\ dest_end = 0
        /\ trace = <<>>
        /\ dst0 = 0 /\ src0 = 0 /\ end0 = 0
        /\ mem0 = mem
        /\ mmio0 = mmio
        /\ written = {}
        /\ readset = {}

(* ------------------- memory initialisation primitives ------------------ *)
Load(m, a) == m[a \div 4]

Store(m, a, v) == [m EXCEPT ![a \div 4] = v]

WordBytes(a) == a .. a + 3

\* memory_copy without the coincidence test of line 256
SameBuffer_never(d, s) == FALSE

SameBuffer(d, s) == d = s

\* loop tests that stop one word early / run one word late
LoopCond_offByOne(d, e) == d + 4 < e

LoopCond_inclusive(d, e) == d <= e

LoopCond(d, e) == d < e

\* bl memory_copy / bl memory_clear: arguments in registers, return address
\* in lr; the remaining conjuncts record the state at the call.
Call(target, d, s, e, ret) ==
    /\ pc' = target
    /\ lr' = ret
    /\ dest' = d /\ src' = s /\ dest_end' = e
    /\ dst0' = d /\ src0' = s /\ end0' = e
    /\ mem0' = mem
    /\ written' = {}
    /\ readset' = {}

\* memory_copy, line 256: if (dest == src) return;
CopySame ==
    /\ pc = "L256"
    /\ SameBuffer(dest, src)
    /\ pc' = lr
    /\ UNCHANGED <<lr, sp, mmio, mem, dest, src, dest_end, sym, trace,
                   dst0, src0, end0, mem0, mmio0, written, readset>>

CopyEnter ==
    /\ pc = "L256"
    /\ ~SameBuffer(dest, src)
    /\ pc' = "L258"
    /\ UNCHANGED <<lr, sp, mmio, mem, dest, src, dest_end, sym, trace,
                   dst0, src0, end0, mem0, mmio0, written, readset>>

\* the copy loop written as  *dest++ = *src;
CopyLoop_noSrcInc ==
    /\ pc = "L258"
    /\ LoopCond(dest, dest_end)
    /\ mem' = Store(mem, dest, Load(mem, src))
    /\ dest' = dest + 4
    /\ written' = written \cup WordBytes(dest)
    /\ readset' = readset \cup WordBytes(src)
    /\ UNCHANGED <<pc, lr, sp, mmio, src, dest_end, sym, trace,
                   dst0, src0, end0, mem0, mmio0>>

\* memory_copy, lines 258-261: one iteration of  *dest++ = *src++;
CopyLoop ==
    /\ pc = "L258"
    /\ LoopCond(dest, dest_end)
    /\ mem' = Store(mem, dest, Load(mem, src))
    /\ dest' = dest + 4
    /\ src' = src + 4
    /\ written' = written \cup WordBytes(dest)
    /\ readset' = readset \cup WordBytes(src)
    /\ UNCHANGED <<pc, lr, sp, mmio, dest_end, sym, trace,
                   dst0, src0, end0, mem0, mmio0>>

CopyDone ==
    /\ pc = "L258"
    /\ ~LoopCond(dest, dest_end)
    /\ pc' = lr
    /\ UNCHANGED <<lr, sp, mmio, mem, dest, src, dest_end, sym, trace,
                   dst0, src0, end0, mem0, mmio0, written, readset>>

\* memory_clear, lines 267-270: one iteration of  *dest++ = 0;
ClearLoop ==
    /\ pc = "L267"
    /\ LoopCond(dest, dest_end)
    /\ mem' = Store(mem, dest, 0)
    /\ dest' = dest + 4
    /\ written' = written \cup WordBytes(dest)
    /\ UNCHANGED <<pc, lr, sp, mmio, src, dest_end, sym, trace,
                   dst0, src0, end0, mem0, mmio0, readset>>

ClearDone ==
    /\ pc = "L267"
    /\ ~LoopCond(dest, dest_end)
    /\ pc' = lr
    /\ UNCHANGED <<lr, sp, mmio, mem, dest, src, dest_end, sym, trace,
                   dst0, src0, end0, mem0, mmio0, written, readset>>

Primitives ==
    CopySame \/ CopyEnter \/ CopyLoop \/ CopyDone \/ ClearLoop \/ ClearDone

(* ------------------------------ startup -------------------------------- *)
\* a store to a memory-mapped register followed by the next statement
Mmio32Write(at, a, v, event, next) ==
    /\ pc = at
    /\ mmio' = [mmio EXCEPT ![a] = v]
    /\ trace' = Append(trace, event)
    /\ pc' = next
    /\ UNCHANGED <<lr, sp, mem, dest, src, dest_end, sym,
                   dst0, src0, end0, mem0, mmio0, written, readset>>

FlexRamBankConfig ==
    Mmio32Write("L37", "0x400AC044", sym._flexram_bank_config,
                "write 0x400AC044", "L38")

FlexRamGpr16 ==
    Mmio32Write("L38", "0x400AC040", \h00000007, "write 0x400AC040", "L39")

FlexRamGpr14 ==
    Mmio32Write("L39", "0x400AC038", \h00AA0000, "write 0x400AC038", "L42")

\* the FPU enable followed directly by the stack pointer move
EnableFpu_noBarriers ==
    Mmio32Write("L42", "0xE000ED88", BitOr(mmio["0xE000ED88"], Shl(\hFF, 20)),
                "write 0xE000ED88", "L48")

\* the FPU enable as a plain store of the field
EnableFpu_overwrite ==
    Mmio32Write("L42", "0xE000ED88", Shl(\hFF, 20), "write 0xE000ED88", "L44")

EnableFpu ==
    Mmio32Write("L42", "0xE000ED88", BitOr(mmio["0xE000ED88"], Shl(\hFF, 20)),
                "write 0xE000ED88", "L44")

Barrier(at, event, next) ==
    /\ pc = at
    /\ trace' = Append(trace, event)
    /\ pc' = next
    /\ UNCHANGED <<lr, sp, mmio, mem, dest, src, dest_end, sym,
                   dst0, src0, end0, mem0, mmio0, written, readset>>

Isb == Barrier("L44", "isb", "L45")

Dsb == Barrier("L45", "dsb", "L48")

MoveStackPointer ==
    /\ pc = "L48"
    /\ sp' = sym._estack
    /\ trace' = Append(trace, "mov sp")
    /\ pc' = "L51"
    /\ UNCHANGED <<lr, mmio, mem, dest, src, dest_end, sym,
                   dst0, src0, end0, mem0, mmio0, written, readset>>

CopyText ==
    /\ pc = "L51"
    /\ Call("L256", sym._stext, sym._stextload, sym._etext, "L52")
    /\ trace' = Append(trace, "memory_copy text")
    /\ UNCHANGED <<sp, mmio, mem, sym, mmio0>>

\* the data copy reading from the text load address
CopyData_textSource ==
    /\ pc = "L52"
    /\ Call("L256", sym._sdata, sym._stextload, sym._edata, "L53")
    /\ trace' = Append(trace, "memory_copy data")
    /\ UNCHANGED <<sp, mmio, mem, sym, mmio0>>

CopyData ==
    /\ pc = "L52"
    /\ Call("L256", sym._sdata, sym._sdataload, sym._edata, "L53")
    /\ trace' = Append(trace, "memory_copy data")
    /\ UNCHANGED <<sp, mmio, mem, sym, mmio0>>

ClearBss ==
    /\ pc = "L53"
    /\ Call("L267", sym._sbss, src, sym._ebss, "L56")
    /\ trace' = Append(trace, "memory_clear bss")
    /\ UNCHANGED <<sp, mmio, mem, sym, mmio0>>

\* the stack pointer stored one entry too far
AssignStackPointer_slot1 ==
    /\ pc = "L56"
    /\ mem' = Store(mem, Addr_irq_table + 4 * 1, sym._estack)
    /\ trace' = Append(trace, "irq_table[0]")
    /\ pc' = "L60"
    /\ UNCHANGED <<lr, sp, mmio, dest, src, dest_end, sym,
                   dst0, src0, end0, mem0, mmio0, written, readset>>

AssignStackPointer ==
    /\ pc = "L56"
    /\ mem' = Store(mem, Addr_irq_table + 4 * 0, sym._estack)
    /\ trace' = Append(trace, "irq_table[0]")
    /\ pc' = "L60"
    /\ UNCHANGED <<lr, sp, mmio, dest, src, dest_end, sym,
                   dst0, src0, end0, mem0, mmio0, written, readset>>

SetupNvic ==
    Mmio32Write("L60", "0xE000ED08", Addr_irq_table, "write 0xE000ED08", "L64")

\* bl main: lr receives the address of the instruction after the bl, which is
\* the end of the naked function (no epilogue is generated).
BranchToMain ==
    /\ pc = "L64"
    /\ lr' = "L65"
    /\ pc' = "main"
    /\ trace' = Append(trace, "bl main")
    /\ UNCHANGED <<sp, mmio, mem, dest, src, dest_end, sym,
                   dst0, src0, end0, mem0, mmio0, written, readset>>

\* main is external: it may run forever (stuttering) or return through lr.
MainReturns ==
    /\ pc = "main"
    /\ pc' = lr
    /\ UNCHANGED <<lr, sp, mmio, mem, dest, src, dest_end, sym, trace,
                   dst0, src0, end0, mem0, mmio0, written, readset>>

Next ==
    \/ FlexRamBankConfig \/ FlexRamGpr16 \/ FlexRamGpr14
    \/ EnableFpu \/ Isb \/ Dsb
    \/ MoveStackPointer
    \/ CopyText \/ CopyData \/ ClearBss
    \/ CopySame \/ CopyEnter \/ CopyLoop \/ CopyDone \/ ClearLoop \/ ClearDone
    \/ AssignStackPointer \/ SetupNvic
    \/ BranchToMain \/ MainReturns

Spec == Init /\ [][Next]_vars

(* ---------- the primitives on their own, for arbitrary arguments ------- *)
\* number of words a loop bounded by LoopCond writes for the range [d, e)
WordsSpanned(d, e) == IF d < e THEN (e - d + 3) \div 4 ELSE 0

InitPrim ==
    \E m \in [0 .. MemWords - 1 -> 0 .. MaxVal],
       f \in {"L256", "L267"},
       d \in {4 * i : i \in 0 .. MemWords - 1},
       s \in {4 * i : i \in 0 .. MemWords - 1},
       e \in 0 .. 4 * MemWords :
        /\ d \div 4 + WordsSpanned(d, e) <= MemWords
        /\ s \div 4 + WordsSpanned(d, e) <= MemWords
        /\ f = "L267" => s = 0
        /\ mem = m
        /\ pc = f
        /\ lr = "caller"
        /\ dest = d /\ src = s /\ dest_end = e
        /\ dst0 = d /\ src0 = s /\ end0 = e
        /\ mem0 = m
        /\ written = {}
        /\ readset = {}
        /\ sym = Symbols(0, 0, 0, FALSE, FALSE)
        /\ mmio = ResetRegisters({})
        /\ mmio0 = mmio
        /\ sp = ResetSp
        /\ trace = <<IF f = "L256" THEN "memory_copy" ELSE "memory_clear">>

SpecPrim == InitPrim /\ [][Primitives]_vars

(* ============================ properties =============================== *)

\* C1 (as stated): after memory_copy(dst, src, dstEnd) with dst # src and
\* dst <= dstEnd returns, every word dst + i of the destination range holds
\* the value word src + i held before the call, overlapping ranges included.
C1_CopyAnyRanges ==
    (pc = lr /\ trace[Len(trace)] = "memory_copy" /\ dst0 # src0 /\ dst0 <= end0)
    => \A i \in 0 .. (end0 - dst0) \div 4 - 1 :
          Load(mem, dst0 + 4 * i) = Load(mem0, src0 + 4 * i)

\* C1 (amended): the same, for calls whose destination does not start inside
\* the source range [src, src + (dstEnd - dst)): the copy runs forward, so a
\* source word is read after every destination word below it was written.
C1_CopyForwardSafe ==
    (/\ pc = lr /\ trace[Len(trace)] = "memory_copy"
     /\ dst0 # src0 /\ dst0 <= end0
     /\ ~(src0 < dst0 /\ dst0 < src0 + (end0 - dst0)))
    => \A i \in 0 .. (end0 - dst0) \div 4 - 1 :
          Load(mem, dst0 + 4 * i) = Load(mem0, src0 + 4 * i)

\* C1 witness: a returned copy of two words or more whose ranges overlap with
\* the source above the destination, and which changed memory.
C1_Witness ==
    /\ pc = lr /\ trace[Len(trace)] = "memory_copy"
    /\ dst0 < src0 /\ src0 < end0 /\ end0 - dst0 >= 8
    /\ mem # mem0

\* C2: when startup transfers to main with load addresses distinct from
\* execution addresses, [_stext,_etext) and [_sdata,_edata) hold the storage
\* image, [_sbss,_ebss) is zero, sp = &_estack and the vector-table-base
\* register holds &irq_table.
C2_StartupImage ==
    (pc = "main" /\ sym._stextload # sym._stext /\ sym._sdataload # sym._sdata)
    => /\ \A i \in 0 .. (sym._etext - sym._stext) \div 4 - 1 :
            /\ Load(mem, sym._stext + 4 * i) = Load(mem, sym._stextload + 4 * i)
            /\ Load(mem, sym._stext + 4 * i) = ImageWord(sym._stextload \div 4 + i)
       /\ \A i \in 0 .. (sym._edata - sym._sdata) \div 4 - 1 :
            /\ Load(mem, sym._sdata + 4 * i) = Load(mem, sym._sdataload + 4 * i)
            /\ Load(mem, sym._sdata + 4 * i) = ImageWord(sym._sdataload \div 4 + i)
       /\ \A i \in 0 .. (sym._ebss - sym._sbss) \div 4 - 1 :
            Load(mem, sym._sbss + 4 * i) = 0
       /\ sp = sym._estack
       /\ mmio["0xE000ED08"] = Addr_irq_table

\* C2 witness: main reached with non-empty text, data and bss regions stored
\* apart from where they execute, over RAM that did not read as zero at reset.
C2_Witness ==
    /\ pc = "main"
    /\ sym._stextload # sym._stext /\ sym._sdataload # sym._sdata
    /\ sym._etext > sym._stext /\ sym._edata > sym._sdata /\ sym._ebss > sym._sbss
    /\ Load(mem, Addr_irq_table + 4) = Garbage

\* C3: the events of startup occur once each in the order FlexRAM writes
\* (0x400AC044, 0x400AC040, 0x400AC038), FPU write, isb, dsb, stack pointer,
\* code copy, data copy, bss clear, irq_table[0], vector-table-base write,
\* transfer to main; no primitive runs before sp is set, and the vector-table
\* base never holds &irq_table while irq_table[0] is unwritten.
C3_StartupOrder ==
    LET order == <<"write 0x400AC044", "write 0x400AC040", "write 0x400AC038",
                   "write 0xE000ED88", "isb", "dsb", "mov sp",
                   "memory_copy text", "memory_copy data", "memory_clear bss",
                   "irq_table[0]", "write 0xE000ED08", "bl main">>
        events == {trace[i] : i \in DOMAIN trace}
    IN /\ Len(trace) <= Len(order)
       /\ trace = SubSeq(order, 1, Len(trace))
       /\ pc \in {"main", "L65"} => trace = order
       /\ pc \in {"L256", "L258", "L267"} => ("mov sp" \in events /\ sp = sym._estack)
       /\ mmio["0xE000ED08"] = Addr_irq_table
            => ("irq_table[0]" \in events /\ Load(mem, Addr_irq_table) = sym._estack)

\* C3 witness: control has reached main after all thirteen events.
C3_Witness == pc = "main" /\ Len(trace) = 13 /\ mmio["0xE000ED08"] = Addr_irq_table

\* C4: the transfer to main records no return address, and nothing placed
\* after the last instruction of startup is ever executed.
C4_BranchNotCall ==
    /\ pc = "main" => lr # "L65"
    /\ pc # "L65"

\* C5: after memory_clear(dst, dstEnd) with dst <= dstEnd returns, every word
\* of [dst, dstEnd) is zero.
C5_ClearZeroes ==
    (pc = lr /\ trace[Len(trace)] = "memory_clear" /\ dst0 <= end0)
    => \A a \in dst0 .. end0 - 1 : a % 4 = 0 => Load(mem, a) = 0

\* C5 witness: a returned clear of two words or more, one of them non-zero
\* before the call.
C5_Witness ==
    /\ pc = lr /\ trace[Len(trace)] = "memory_clear"
    /\ end0 - dst0 >= 8
    /\ Load(mem0, dst0 + 4) # 0

\* C6: memory_copy with src == dst skips the copy: at every point of the call
\* no memory write has been made, the loop is not entered and memory is as it
\* was before the call.
C6_CopySameIsNoOp ==
    (trace # <<>> /\ trace[Len(trace)] = "memory_copy" /\ dst0 = src0)
    => /\ written = {}
       /\ mem = mem0
       /\ pc # "L258"

\* C6 witness: a returned copy with src == dst over a non-empty range that
\* holds a non-zero word.
C6_Witness ==
    /\ pc = lr /\ trace[Len(trace)] = "memory_copy"
    /\ dst0 = src0 /\ end0 >= dst0 + 8
    /\ Load(mem, dst0) # 0

\* C7 (as stated): memory_copy and memory_clear never write an address
\* outside [dst, dstEnd), whatever dst and dstEnd; with dst == dstEnd they
\* write nothing, leave memory unchanged and memory_copy reads nothing.
C7_WritesInsideRange ==
    /\ written \subseteq dst0 .. end0 - 1
    /\ dst0 = end0 => (written = {} /\ mem = mem0 /\ readset = {})

\* C7 (amended): the writes stay inside [dst, dstEnd) when dstEnd <= dst or
\* dstEnd - dst is a whole number of words; otherwise the last word written
\* reaches at most three bytes past dstEnd.  With dst == dstEnd nothing is
\* written or read and memory is unchanged.
C7_WritesInsideWordRange ==
    /\ (end0 <= dst0 \/ (end0 - dst0) % 4 = 0) => written \subseteq dst0 .. end0 - 1
    /\ written \subseteq dst0 .. end0 + 2
    /\ \A w \in DOMAIN mem :
          mem[w] # mem0[w] => (dst0 <= 4 * w /\ 4 * w < end0)
    /\ dst0 = end0 => (written = {} /\ mem = mem0 /\ readset = {})

\* C7 witness: returned calls of either primitive with dst == dstEnd and
\* non-zero memory, which the amended statement covers.
C7_Witness ==
    /\ pc = lr /\ dst0 = end0 /\ dst0 # src0
    /\ \E w \in DOMAIN mem : mem[w] # 0

\* C8: ImageVectorTable holds the magic header, &startup, 0, 0, &BootData,
\* its own address, 0, 0 in every reachable state.
C8_ImageVectorTableFixed ==
    /\ Load(mem, Addr_ImageVectorTable + 4 * 0) = \h402000D1
    /\ Load(mem, Addr_ImageVectorTable + 4 * 1) = Addr_startup
    /\ Load(mem, Addr_ImageVectorTable + 4 * 4) = Addr_BootData
    /\ Load(mem, Addr_ImageVectorTable + 4 * 5) = Addr_ImageVectorTable
    /\ \A i \in {2, 3, 6, 7} : Load(mem, Addr_ImageVectorTable + 4 * i) = 0

\* C8 witness: main reached after the primitives and the irq_table patch have
\* written memory.
C8_Witness ==
    /\ pc = "main"
    /\ sym._etext > sym._stext /\ sym._stext # sym._stextload
    /\ Load(mem, sym._stext) # Garbage
    /\ Load(mem, Addr_irq_table) = sym._estack

\* C9: of the words of FlexSPI_NOR_Config, BootData, ImageVectorTable and
\* irq_table, no step of startup or of the primitives it calls writes any but
\* irq_table[0], which is written once, with &_estack.
C9_OnlyIrqTableZero ==
    [][LET inTables(w) == \/ w < Addr_startup \div 4
                          \/ /\ Addr_irq_table \div 4 <= w
                             /\ w < Addr_irq_table \div 4 + IrqTableLen
           patches(t) == Cardinality({i \in DOMAIN t : t[i] = "irq_table[0]"})
       IN /\ \A a \in written' : ~inTables(a \div 4)
          /\ patches(trace') <= 1
          /\ mem' # mem =>
                \A w \in DOMAIN mem :
                    (inTables(w) /\ mem'[w] # mem[w]) =>
                        /\ w = Addr_irq_table \div 4
                        /\ mem'[w] = sym._estack
                        /\ patches(trace) = 0 /\ patches(trace') = 1
          /\ patches(trace') # patches(trace) =>
                Load(mem', Addr_irq_table) = sym._estack]_vars

\* C9 witness: main reached with irq_table[0] patched, after copies and a
\* clear that wrote memory.
C9_Witness ==
    /\ pc = "main"
    /\ Load(mem, Addr_irq_table) = sym._estack
    /\ Load(mem, Addr_irq_table + 4) # sym._estack
    /\ sym._ebss > sym._sbss /\ written # {}

\* C10 (as stated): the FPU-enable write leaves the register with bits
\* 20..23 set and every other bit as it was, and precedes the first copy.
C10_FpuBits20To23 ==
    LET events == {trace[i] : i \in DOMAIN trace}
    IN /\ "write 0xE000ED88" \in events =>
            \A b \in 0 .. 31 :
                b \in mmio["0xE000ED88"] <=> (b \in 20 .. 23 \/ b \in mmio0["0xE000ED88"])
       /\ "memory_copy text" \in events => "write 0xE000ED88" \in events

\* C10 (amended): the field set is bits 20..27 (0xFF << 20), which contains
\* the CP10/CP11 access bits 20..23; every bit outside 20..27 keeps its prior
\* value, and the write precedes the first copy.
C10_FpuBits20To27 ==
    LET events == {trace[i] : i \in DOMAIN trace}
    IN /\ "write 0xE000ED88" \in events =>
            \A b \in 0 .. 31 :
                b \in mmio["0xE000ED88"] <=> (b \in 20 .. 27 \/ b \in mmio0["0xE000ED88"])
       /\ "write 0xE000ED88" \notin events => mmio["0xE000ED88"] = mmio0["0xE000ED88"]
       /\ "memory_copy text" \in events => "write 0xE000ED88" \in events

\* C10 witness: the first copy has been called and the register, which had
\* bit 31 set and the FPU bits clear at reset, has been written.
C10_Witness ==
    /\ pc = "L256"
    /\ mmio0["0xE000ED88"] = {31}
    /\ mmio["0xE000ED88"] # mmio0["0xE000ED88"]
====
